---- MODULE Spec2Model ----
(***************************************************************************)
(* Write-authorization model of the purchase-order confirmation flow:      *)
(*   - the users BEFORE UPDATE guard (phase 18 migration),                 *)
(*   - the row-level-security policies on orders (phase 20 / phase 21),    *)
(*   - the three migration scripts themselves,                             *)
(*   - the DualPOFlow component that drives the client confirmation.       *)
(***************************************************************************)
EXTENDS Integers, FiniteSets, Sequences, TLC

VARIABLES
  users,          \* public.users: id -> row
  lastUser,       \* the last UPDATE statement issued on public.users and its outcome
  nUserOps,       \* number of UPDATE statements issued on public.users
  orders,         \* public.orders: id -> row, or NoOrder
  policies,       \* names of the client policies present on public.orders
  lastOrder,      \* the last statement issued on public.orders and its outcome
  nOrderOps,      \* number of statements issued on public.orders
  columns,        \* columns of public.orders added by migrations
  userTriggers,   \* names of the triggers on public.users
  userFunctions,  \* names of the trigger functions present
  migration_log,  \* public._migration_log: migration_name -> number of rows
  lastMig,        \* the last migration run and what it did
  nMigs,          \* number of migration runs
  step,                      \* DualPOFlow state: 'confirmation' | 'pending'
  submitting,                \* DualPOFlow state
  isNotTestOrderConfirmed,   \* DualPOFlow state (checkbox)
  isPaymentTermsConfirmed,   \* DualPOFlow state (checkbox)
  currentUser,               \* store: the signed-in user, or NULL
  storeOrder,                \* store: its copy of the order orderId, or NoOrder
  pc,                        \* where handleSubmitForConfirmation stands
  confirmationTimestamp,     \* the instant the running submit captured
  clock,                     \* the current instant
  notifications,             \* notifications enqueued since the workflow was loaded
  toast,                     \* the last toast shown since the workflow was loaded
  effectPending,             \* the restore effect is scheduled and has not run
  loadedSubmitted,           \* the order, as delivered to the workflow, was already confirmed
  nLoads,                    \* number of times the workflow was loaded
  nSubmits                   \* number of submit attempts started

varsUsers == <<users, lastUser, nUserOps>>

varsOrders == <<orders, policies, lastOrder, nOrderOps>>

varsSchema == <<columns, userTriggers, userFunctions, migration_log, lastMig, nMigs>>

varsFlow == <<step, submitting, isNotTestOrderConfirmed, isPaymentTermsConfirmed,
              currentUser, storeOrder, pc, confirmationTimestamp, clock, notifications,
              toast, effectPending, loadedSubmitted, nLoads, nSubmits>>

vars == <<users, lastUser, nUserOps, orders, policies, lastOrder, nOrderOps,
          columns, userTriggers, userFunctions, migration_log, lastMig, nMigs,
          step, submitting, isNotTestOrderConfirmed, isPaymentTermsConfirmed,
          currentUser, storeOrder, pc, confirmationTimestamp, clock, notifications,
          toast, effectPending, loadedSubmitted, nLoads, nSubmits>>

NULL == "NULL"

\* the NULL of a TIMESTAMPTZ column (instants are 1, 2, ...)
NullTimestamp == 0

(***************************************************************************)
(* Bounds                                                                  *)
(***************************************************************************)
MaxUserUpdates == 2

MaxOrderOps == 2

MaxClock == 2

MaxMigrationRuns == 4

MaxLoads == 2

MaxSubmits == 2

\* admin-side status transitions while a workflow is open
MaxAdminTransitions == 1

(***************************************************************************)
(* public.users                                                            *)
(***************************************************************************)
UserIds == {"c1", "c2", "a1"}

Roles == {"CLIENT", "ADMIN"}

\* the columns the guard names, and the three it leaves alone
ProtectedUserFields ==
  {"role", "verified", "status", "kyc_status", "public_id", "date_joined", "credit_limit"}

FinancialUserFields == {"credit_used", "current_balance", "rating"}

UserFields == ProtectedUserFields \cup FinancialUserFields

\* the sets of columns one UPDATE statement changes
UserDeltas ==
  {{}} \cup {{f} : f \in UserFields} \cup {FinancialUserFields}
       \cup {{"role", "credit_used"}}

\* database roles a statement can run as: the two end-user roles of the API,
\* and the owner role that SECURITY DEFINER routines and migrations run as
EndUserRoles == {"authenticated", "anon"}

OwnerRole == "postgres"

SessionRoles == EndUserRoles \cup {OwnerRole}

\* <<database role of the statement, auth.uid()>>
UserWriteContexts ==
  {<<"authenticated", u>> : u \in UserIds}
    \cup {<<"anon", NULL>>}
    \cup {<<OwnerRole, u>> : u \in UserIds \cup {NULL}}

ToggleValue(f, v) ==
  IF f = "role" THEN (IF v = "ADMIN" THEN "CLIENT" ELSE "ADMIN") ELSE 1 - v

\* SET clause of an UPDATE: the row with the columns of delta given new values
ApplyUserDelta(row, delta) ==
  [f \in UserFields |-> IF f \in delta THEN ToggleValue(f, row[f]) ELSE row[f]]

InitUserRow(r) ==
  [f \in UserFields |-> IF f = "role" THEN r ELSE 0]

\* Body of the guard with a caller that skips the execution-context test
enforce_safe_user_profile_update_NoContextCheck(current_user, uid, OLDrow, NEWrow, tbl) ==
  IF uid = NULL THEN "RETURN_NEW"
  ELSE
    LET v_caller_role == IF uid \in DOMAIN tbl THEN tbl[uid].role ELSE NULL
    IN IF v_caller_role = "ADMIN" THEN "RETURN_NEW"
       ELSE IF \E f \in ProtectedUserFields : OLDrow[f] # NEWrow[f]
            THEN "EXCEPTION"
            ELSE "RETURN_NEW"

\* public.enforce_safe_user_profile_update(): current_user is the role the
\* function body executes as, uid is auth.uid(), tbl is public.users
enforce_safe_user_profile_update(current_user, uid, OLDrow, NEWrow, tbl) ==
  IF current_user \notin {"authenticated", "anon"} THEN "RETURN_NEW"
  ELSE IF uid = NULL THEN "RETURN_NEW"
  ELSE
    LET v_caller_role == IF uid \in DOMAIN tbl THEN tbl[uid].role ELSE NULL
    IN IF v_caller_role = "ADMIN" THEN "RETURN_NEW"
       ELSE IF \/ OLDrow.role # NEWrow.role
               \/ OLDrow.verified # NEWrow.verified
               \/ OLDrow.status # NEWrow.status
               \/ OLDrow.kyc_status # NEWrow.kyc_status
               \/ OLDrow.public_id # NEWrow.public_id
               \/ OLDrow.date_joined # NEWrow.date_joined
               \/ OLDrow.credit_limit # NEWrow.credit_limit
            THEN "EXCEPTION"
            ELSE "RETURN_NEW"

\* The function is declared SECURITY DEFINER: whatever role issued the
\* statement, its body executes as the function's owner, the role that ran the
\* migration, and current_user inside the body is that owner.
FunctionExecutionRole(sessionRole) == OwnerRole

\* trg_enforce_safe_user_profile_update: BEFORE UPDATE ... FOR EACH ROW
trg_enforce_safe_user_profile_update(sessionRole, uid, OLDrow, NEWrow, tbl) ==
  enforce_safe_user_profile_update(FunctionExecutionRole(sessionRole), uid, OLDrow, NEWrow, tbl)

\* One UPDATE statement on one row of public.users
UserUpdate(ctx, target, delta) ==
  /\ nUserOps < MaxUserUpdates
  /\ LET OLDrow == users[target]
         NEWrow == ApplyUserDelta(OLDrow, delta)
         res == trg_enforce_safe_user_profile_update(ctx[1], ctx[2], OLDrow, NEWrow, users)
     IN /\ users' = IF res = "RETURN_NEW" THEN [users EXCEPT ![target] = NEWrow] ELSE users
        /\ lastUser' = [op |-> "update", session |-> ctx[1], uid |-> ctx[2],
                        callerRole |-> IF ctx[2] \in UserIds THEN users[ctx[2]].role ELSE NULL,
                        target |-> target, old |-> OLDrow, new |-> NEWrow,
                        outcome |-> IF res = "RETURN_NEW" THEN "allowed" ELSE "denied"]
  /\ nUserOps' = nUserOps + 1
  /\ UNCHANGED <<varsOrders, varsSchema, varsFlow>>

InitUsers ==
  /\ users = [u \in UserIds |-> InitUserRow(IF u = "a1" THEN "ADMIN" ELSE "CLIENT")]
  /\ lastUser = [op |-> "none", session |-> NULL, uid |-> NULL, callerRole |-> NULL,
                 target |-> NULL, old |-> InitUserRow("CLIENT"), new |-> InitUserRow("CLIENT"),
                 outcome |-> "none"]
  /\ nUserOps = 0

(***************************************************************************)
(* public.orders and its client policies                                   *)
(***************************************************************************)
OrderIds == {"o1", "o2"}

NoOrder == [absent |-> TRUE]

OrderStatuses == {"PENDING_PO", "PENDING_ADMIN_CONFIRMATION", "CONFIRMED"}

PENDING_ADMIN_CONFIRMATION == "PENDING_ADMIN_CONFIRMATION"

Timestamps == 1..MaxClock

\* the columns phase 20 adds
POColumns ==
  {"not_test_order_confirmed_at", "payment_terms_confirmed_at",
   "client_po_confirmation_submitted_at", "client_po_uploaded"}

OrderColumns == {"client_id", "status", "amount"} \cup POColumns

UpdatePolicyName == "Clients can update own PO fields"

InsertPolicyName == "Clients can create own orders"

\* a row as INSERT creates it: the phase 20 columns take their defaults
NewOrderRow(client, st) ==
  [client_id |-> client, status |-> st, amount |-> 1,
   not_test_order_confirmed_at |-> NullTimestamp,
   payment_terms_confirmed_at |-> NullTimestamp,
   client_po_confirmation_submitted_at |-> NullTimestamp,
   client_po_uploaded |-> FALSE]

ExistingOrders(tbl) == {x \in OrderIds : tbl[x] # NoOrder}

\* SET clauses of the UPDATE statements issued on orders
POConfirmationSet(t) ==
  [not_test_order_confirmed_at |-> t, payment_terms_confirmed_at |-> t,
   client_po_confirmation_submitted_at |-> t]

POConfirmationWithFlagSet(t) ==
  [not_test_order_confirmed_at |-> t, payment_terms_confirmed_at |-> t,
   client_po_confirmation_submitted_at |-> t, client_po_uploaded |-> TRUE]

StatusAndConfirmationSet(st, t) ==
  [status |-> st, not_test_order_confirmed_at |-> t, payment_terms_confirmed_at |-> t,
   client_po_confirmation_submitted_at |-> t]

OrderSetClauses ==
  {POConfirmationSet(t) : t \in Timestamps}
    \cup {POConfirmationWithFlagSet(t) : t \in Timestamps}
    \cup {StatusAndConfirmationSet(st, 1) : st \in OrderStatuses}
    \cup {[status |-> st] : st \in OrderStatuses}
    \cup {[client_id |-> u] : u \in UserIds}
    \cup {[amount |-> 2]}

\* the row an UPDATE ... SET proposes
ApplyOrderSet(row, set) ==
  [c \in OrderColumns |-> IF c \in DOMAIN set THEN set[c] ELSE row[c]]

\* get_user_role(): the stored role of auth.uid()
get_user_role(uid, tbl) == IF uid \in DOMAIN tbl THEN tbl[uid].role ELSE NULL

\* the rows of orders the caller's SELECT policies expose
VisibleOrders(uid, tbl) == {x \in ExistingOrders(tbl) : tbl[x].client_id = uid}

\* a scalar subquery: NULL for no row, the value for one row, an error for more
ScalarSubquery(rows, tbl) ==
  IF Cardinality(rows) = 0 THEN NULL
  ELSE IF Cardinality(rows) = 1 THEN tbl[CHOOSE x \in rows : TRUE].status
  ELSE "ERROR"

\* WITH CHECK of an insert policy that only compares the owner
ClientsCanCreateOwnOrders_WithCheck_NoRoleCheck(uid, NEWrow, userTbl) ==
  /\ uid # NULL
  /\ uid = NEWrow.client_id

\* "Clients can create own orders": FOR INSERT WITH CHECK
ClientsCanCreateOwnOrders_WithCheck(uid, NEWrow, userTbl) ==
  /\ uid # NULL
  /\ uid = NEWrow.client_id
  /\ get_user_role(uid, userTbl) = "CLIENT"

\* USING of a policy that does not compare the owner
ClientsCanUpdateOwnPOFields_Using_AnyPrincipal(uid, OLDrow) ==
  uid # NULL

\* "Clients can update own PO fields": USING
ClientsCanUpdateOwnPOFields_Using(uid, OLDrow) ==
  /\ uid # NULL
  /\ uid = OLDrow.client_id

\* the status as the client read it when the order was created, not re-read
CurrentStatusSubquery_StaleRead(id, tbl, visible) ==
  "PENDING_PO"

\* (SELECT status FROM public.orders WHERE id = orders.id): inside the
\* subquery the name orders is the subquery's own FROM entry, so the
\* condition compares each row's id with itself and keeps every visible row.
CurrentStatusSubquery(id, tbl, visible) ==
  ScalarSubquery({x \in visible : x = x}, tbl)

\* WITH CHECK of a policy that only mirrors USING
ClientsCanUpdateOwnPOFields_WithCheck_OwnerOnly(uid, id, NEWrow, tbl, visible) ==
  IF uid # NULL /\ uid = NEWrow.client_id THEN "pass" ELSE "fail"

\* "Clients can update own PO fields" (phase 21): WITH CHECK, evaluated on
\* the proposed row; "pass", "fail" (policy violation) or "error"
ClientsCanUpdateOwnPOFields_WithCheck(uid, id, NEWrow, tbl, visible) ==
  IF ~(uid # NULL /\ uid = NEWrow.client_id) THEN "fail"
  ELSE LET cur == CurrentStatusSubquery(id, tbl, visible)
       IN IF cur = "ERROR" THEN "error"
          ELSE IF cur # NULL /\ NEWrow.status = cur THEN "pass"
          ELSE "fail"

\* An UPDATE of one order by an end-user session, decided by the client policy
ClientUpdateDecision(uid, id, NEWrow, tbl, pols) ==
  IF UpdatePolicyName \notin pols THEN "no_policy"
  ELSE IF ~ClientsCanUpdateOwnPOFields_Using(uid, tbl[id]) THEN "no_row"
  ELSE ClientsCanUpdateOwnPOFields_WithCheck(uid, id, NEWrow, tbl, VisibleOrders(uid, tbl))

OrderOp(op, uid, id, old, proposed, cols, outcome) ==
  [op |-> op, uid |-> uid, id |-> id, old |-> old, proposed |-> proposed,
   cols |-> cols, outcome |-> outcome]

\* supabase.from('orders').update(set).eq('id', id) as principal uid
ClientUpdateOrder(uid, id, set) ==
  /\ nOrderOps < MaxOrderOps
  /\ orders[id] # NoOrder
  /\ LET NEWrow == ApplyOrderSet(orders[id], set)
         res == ClientUpdateDecision(uid, id, NEWrow, orders, policies)
     IN /\ orders' = IF res = "pass" THEN [orders EXCEPT ![id] = NEWrow] ELSE orders
        /\ lastOrder' = OrderOp("update", uid, id, orders[id], NEWrow, DOMAIN set,
                                IF res = "pass" THEN "allowed" ELSE "denied")
  /\ nOrderOps' = nOrderOps + 1
  /\ UNCHANGED <<policies, varsUsers, varsSchema, varsFlow>>

\* supabase.from('orders').insert(row) as principal uid
ClientInsertOrder(uid, id, client, st) ==
  /\ nOrderOps < MaxOrderOps
  /\ orders[id] = NoOrder
  /\ LET NEWrow == NewOrderRow(client, st)
         ok == /\ InsertPolicyName \in policies
               /\ ClientsCanCreateOwnOrders_WithCheck(uid, NEWrow, users)
     IN /\ orders' = IF ok THEN [orders EXCEPT ![id] = NEWrow] ELSE orders
        /\ lastOrder' = OrderOp("insert", uid, id, NoOrder, NEWrow, OrderColumns,
                                IF ok THEN "allowed" ELSE "denied")
  /\ nOrderOps' = nOrderOps + 1
  /\ UNCHANGED <<policies, varsUsers, varsSchema, varsFlow>>

\* a status transition made on the admin side, outside the client policies
TrustedStatusTransition(id, st) ==
  /\ nOrderOps < MaxOrderOps
  /\ orders[id] # NoOrder
  /\ orders[id].status # st
  /\ orders' = [orders EXCEPT ![id].status = st]
  /\ lastOrder' = OrderOp("transition", NULL, id, NoOrder, NoOrder, {"status"}, "allowed")
  /\ nOrderOps' = nOrderOps + 1
  /\ UNCHANGED <<policies, varsUsers, varsSchema, varsFlow>>

InitOrders ==
  /\ orders = [x \in OrderIds |-> IF x = "o1" THEN NewOrderRow("c1", "PENDING_PO") ELSE NoOrder]
  /\ policies = {UpdatePolicyName, InsertPolicyName}
  /\ lastOrder = OrderOp("none", NULL, NULL, NoOrder, NoOrder, {}, "none")
  /\ nOrderOps = 0

NextOrders ==
  \/ \E uid \in UserIds, id \in OrderIds, set \in OrderSetClauses :
       ClientUpdateOrder(uid, id, set)
  \/ \E uid \in UserIds, id \in OrderIds, client \in UserIds, st \in OrderStatuses :
       ClientInsertOrder(uid, id, client, st)
  \/ \E id \in OrderIds, st \in OrderStatuses : TrustedStatusTransition(id, st)

(***************************************************************************)
(* The migration scripts                                                   *)
(***************************************************************************)
Phase18 == "20260221_phase18_fix_user_profile_trigger.sql"

Phase20 == "20260221_phase20_po_submission_columns_and_rls.sql"

Phase21 == "20260221_phase21_fix_client_order_rls.sql"

Migrations == {Phase18, Phase20, Phase21}

\* what the tool running a script does when a statement fails: go on with the
\* next statement, stop there, or undo the whole script
RunnerModes == {"continue", "stop", "rollback"}

GuardTrigger == "trg_enforce_safe_user_profile_update"

GuardFunction == "enforce_safe_user_profile_update"

LegacyGuardTrigger == "trg_restrict_user_profile_update"

LegacyGuardFunctions ==
  {"restrict_user_profile_update", "enforce_safe_profile_update", "check_user_profile_update"}

TriggerNames ==
  {"update_users_updated_at", "auto_public_id_trigger", LegacyGuardTrigger, GuardTrigger}

\* pg_trigger.tgtype: ROW = 1, BEFORE = 2, INSERT = 4, DELETE = 8, UPDATE = 16
tgtype(name) == IF name = "auto_public_id_trigger" THEN 1 + 2 + 4 ELSE 1 + 2 + 16

\* the function a trigger executes
tgfoid(name) ==
  IF name = GuardTrigger THEN GuardFunction
  ELSE IF name = LegacyGuardTrigger THEN "restrict_user_profile_update"
  ELSE name

\* t.tgtype & 16 = 16
HasBit16(n) == (n \div 16) % 2 = 1

\* phase 18, step 1: the triggers the DO block's loop leaves on public.users
DropUpdateTriggers(trgs) ==
  {t \in trgs : ~(HasBit16(tgtype(t)) /\ t \notin {"update_users_updated_at"})}

\* phase 18, step 2: DROP FUNCTION IF EXISTS ... CASCADE, on the triggers
DropLegacyFunctionsCascade(trgs) ==
  {t \in trgs : tgfoid(t) \notin LegacyGuardFunctions}

\* INSERT INTO public._migration_log ... ON CONFLICT (migration_name) DO NOTHING
LogMigration(log, name) ==
  [log EXCEPT ![name] = IF log[name] = 0 THEN 1 ELSE log[name]]

Schema == [columns |-> columns, policies |-> policies, userTriggers |-> userTriggers,
           userFunctions |-> userFunctions]

MigRun(name, mode, error) ==
  [name |-> name, mode |-> mode, error |-> error,
   rerun |-> migration_log[name] > 0, before |-> Schema]

\* the phase 20 script. Its statements: (1) ADD COLUMN IF NOT EXISTS x 4,
\* (2) DROP POLICY IF EXISTS on the update policy, (3) CREATE POLICY ... WITH
\* CHECK (... AND status = OLD.status), (4) DROP and CREATE of the insert
\* policy, (5) the log row. A policy expression cannot name OLD: statement (3)
\* is rejected (the phase 21 header records it), on every run.
ApplyPhase20(mode) ==
  /\ nMigs < MaxMigrationRuns
  /\ nMigs' = nMigs + 1
  /\ lastMig' = MigRun(Phase20, mode, TRUE)
  /\ IF mode = "rollback"
       THEN UNCHANGED <<columns, policies, migration_log>>
     ELSE IF mode = "stop"
       THEN /\ columns' = columns \cup POColumns
            /\ policies' = policies \ {UpdatePolicyName}
            /\ UNCHANGED migration_log
     ELSE /\ columns' = columns \cup POColumns
          /\ policies' = (policies \ {UpdatePolicyName}) \cup {InsertPolicyName}
          /\ migration_log' = LogMigration(migration_log, Phase20)
  /\ UNCHANGED <<userTriggers, userFunctions, varsUsers, orders, lastOrder, nOrderOps, varsFlow>>

\* the phase 21 script
ApplyPhase21 ==
  /\ nMigs < MaxMigrationRuns
  /\ nMigs' = nMigs + 1
  /\ lastMig' = MigRun(Phase21, "continue", FALSE)
  /\ policies' = (policies \ {UpdatePolicyName}) \cup {UpdatePolicyName}
  /\ migration_log' = LogMigration(migration_log, Phase21)
  /\ UNCHANGED <<columns, userTriggers, userFunctions, varsUsers, orders, lastOrder, nOrderOps, varsFlow>>

\* the phase 18 script
ApplyPhase18(mode) ==
  /\ nMigs < MaxMigrationRuns
  /\ nMigs' = nMigs + 1
  /\ LET afterStep1 == DropUpdateTriggers(userTriggers)
         afterStep2 == DropLegacyFunctionsCascade(afterStep1)
         functions2 == userFunctions \ LegacyGuardFunctions
         functions3 == functions2 \cup {GuardFunction}
         createFails == GuardTrigger \in afterStep2
     IN /\ lastMig' = MigRun(Phase18, mode, createFails)
        /\ IF ~createFails
             THEN /\ userTriggers' = afterStep2 \cup {GuardTrigger}
                  /\ userFunctions' = functions3
                  /\ migration_log' = LogMigration(migration_log, Phase18)
           ELSE IF mode = "rollback"
             THEN UNCHANGED <<userTriggers, userFunctions, migration_log>>
           ELSE /\ userTriggers' = afterStep2
                /\ userFunctions' = functions3
                /\ migration_log' = IF mode = "continue"
                                      THEN LogMigration(migration_log, Phase18)
                                      ELSE migration_log
  /\ UNCHANGED <<columns, policies, varsUsers, orders, lastOrder, nOrderOps, varsFlow>>

\* the schema once the three scripts have run (18, 20, 21 in name order)
InitSchema ==
  /\ columns = POColumns
  /\ userTriggers = {"update_users_updated_at", "auto_public_id_trigger", GuardTrigger}
  /\ userFunctions = {GuardFunction}
  /\ migration_log = [m \in Migrations |-> 1]
  /\ lastMig = [name |-> NULL, mode |-> NULL, error |-> FALSE, rerun |-> FALSE,
                before |-> [columns |-> {}, policies |-> {}, userTriggers |-> {},
                            userFunctions |-> {}]]
  /\ nMigs = 0

NextMigrations ==
  \/ \E mode \in RunnerModes : ApplyPhase20(mode)
  \/ ApplyPhase21
  \/ \E mode \in RunnerModes : ApplyPhase18(mode)

(***************************************************************************)
(* DualPOFlow                                                              *)
(***************************************************************************)
orderId == "o1"

\* the restore effect's hasSubmittedConfirmation, inverted
hasSubmittedConfirmation_Inverted(currentOrder) ==
  ~( \/ currentOrder.client_po_confirmation_submitted_at # NullTimestamp
     \/ /\ currentOrder.not_test_order_confirmed_at # NullTimestamp
        /\ currentOrder.payment_terms_confirmed_at # NullTimestamp )

\* the restore effect's hasSubmittedConfirmation
hasSubmittedConfirmation(currentOrder) ==
  \/ currentOrder.client_po_confirmation_submitted_at # NullTimestamp
  \/ /\ currentOrder.not_test_order_confirmed_at # NullTimestamp
     /\ currentOrder.payment_terms_confirmed_at # NullTimestamp

\* a disabled attribute that leaves the submitting flag out
SubmitDisabled_IgnoresSubmitting == ~isNotTestOrderConfirmed \/ ~isPaymentTermsConfirmed

\* the submit button's disabled attribute
SubmitDisabled == submitting \/ ~isNotTestOrderConfirmed \/ ~isPaymentTermsConfirmed

\* the columns poConfirmationService.submitClientPOConfirmation writes
SubmitClientPOConfirmationSet(t) == POConfirmationSet(t)

\* an updateOrder call that leaves the status out
UpdateOrderArgs_NoStatus(t) == POConfirmationSet(t)

\* the second argument of the updateOrder call
UpdateOrderArgs(t) == StatusAndConfirmationSet(PENDING_ADMIN_CONFIRMATION, t)

\* a handler that does not enqueue the notification
addNotification_Dropped(n) == n

\* store.addNotification, as a count of what is enqueued
addNotification(n) == n + 1

\* a finally block that leaves the flag as it is
setSubmittingFinally_Skipped(flag) == flag

\* finally { setSubmitting(false) }
setSubmittingFinally(flag) == FALSE

\* one write of the workflow, issued as currentUser through the client update
\* policy; a write can also fail in transit
WorkflowWrite(set, transientFailure) ==
  IF transientFailure THEN "transient"
  ELSE ClientUpdateDecision(currentUser, orderId, ApplyOrderSet(orders[orderId], set),
                            orders, policies)

\* the page (re)loads: the component mounts with its initial state and the
\* store holds the order as read from the database, or does not hold it yet
Load(user, haveOrder) ==
  /\ nLoads < MaxLoads
  /\ nLoads' = nLoads + 1
  /\ step' = "confirmation"
  /\ submitting' = FALSE
  /\ isNotTestOrderConfirmed' = FALSE
  /\ isPaymentTermsConfirmed' = FALSE
  /\ currentUser' = user
  /\ storeOrder' = IF haveOrder THEN orders[orderId] ELSE NoOrder
  /\ loadedSubmitted' = (haveOrder /\ hasSubmittedConfirmation(orders[orderId]))
  /\ pc' = "idle"
  /\ confirmationTimestamp' = NullTimestamp
  /\ notifications' = 0
  /\ toast' = "none"
  /\ effectPending' = TRUE
  /\ UNCHANGED <<clock, nSubmits, varsUsers, varsOrders, varsSchema>>

\* the store receives the order it did not hold at load
StoreLoaded ==
  /\ pc # "unmounted"
  /\ storeOrder = NoOrder
  /\ storeOrder' = orders[orderId]
  /\ loadedSubmitted' = hasSubmittedConfirmation(orders[orderId])
  /\ effectPending' = TRUE
  /\ UNCHANGED <<step, submitting, isNotTestOrderConfirmed, isPaymentTermsConfirmed,
                 currentUser, pc, confirmationTimestamp, clock, notifications, toast,
                 nLoads, nSubmits, varsUsers, varsOrders, varsSchema>>

\* the restore useEffect
RestoreEffect ==
  /\ pc # "unmounted"
  /\ effectPending
  /\ effectPending' = FALSE
  /\ step' = IF storeOrder = NoOrder THEN step
             ELSE IF hasSubmittedConfirmation(storeOrder) THEN "pending"
             ELSE step
  /\ UNCHANGED <<submitting, isNotTestOrderConfirmed, isPaymentTermsConfirmed,
                 currentUser, storeOrder, pc, confirmationTimestamp, clock, notifications,
                 toast, loadedSubmitted, nLoads, nSubmits, varsUsers, varsOrders, varsSchema>>

\* onChange of the first checkbox
ToggleNotTestOrder ==
  /\ pc # "unmounted"
  /\ ~effectPending
  /\ step = "confirmation"
  /\ isNotTestOrderConfirmed' = ~isNotTestOrderConfirmed
  /\ UNCHANGED <<step, submitting, isPaymentTermsConfirmed, currentUser, storeOrder, pc,
                 confirmationTimestamp, clock, notifications, toast, effectPending,
                 loadedSubmitted, nLoads, nSubmits, varsUsers, varsOrders, varsSchema>>

\* onChange of the second checkbox
TogglePaymentTerms ==
  /\ pc # "unmounted"
  /\ ~effectPending
  /\ step = "confirmation"
  /\ isPaymentTermsConfirmed' = ~isPaymentTermsConfirmed
  /\ UNCHANGED <<step, submitting, isNotTestOrderConfirmed, currentUser, storeOrder, pc,
                 confirmationTimestamp, clock, notifications, toast, effectPending,
                 loadedSubmitted, nLoads, nSubmits, varsUsers, varsOrders, varsSchema>>

\* early returns of a handler that does not test currentUser
handleSubmitGuards_NoUserCheck(user, notTest, paymentTerms) ==
  IF ~notTest \/ ~paymentTerms THEN "return"
  ELSE "proceed"

\* the two early returns of handleSubmitForConfirmation
handleSubmitGuards(user, notTest, paymentTerms) ==
  IF user = NULL THEN "return"
  ELSE IF ~notTest \/ ~paymentTerms THEN "return"
  ELSE "proceed"

\* a click on the submit button: handleSubmitForConfirmation up to its first await
ClickSubmit ==
  /\ pc # "unmounted"
  /\ ~effectPending
  /\ step = "confirmation"
  /\ ~SubmitDisabled
  /\ nSubmits < MaxSubmits
  /\ IF handleSubmitGuards(currentUser, isNotTestOrderConfirmed, isPaymentTermsConfirmed)
          = "return"
       THEN UNCHANGED <<submitting, confirmationTimestamp, pc, nSubmits>>
     ELSE /\ submitting' = TRUE
          /\ confirmationTimestamp' = clock
          /\ pc' = "awaitService"
          /\ nSubmits' = nSubmits + 1
  /\ UNCHANGED <<step, isNotTestOrderConfirmed, isPaymentTermsConfirmed, currentUser,
                 storeOrder, clock, notifications, toast, effectPending, loadedSubmitted,
                 nLoads, varsUsers, varsOrders, varsSchema>>

\* await poConfirmationService.submitClientPOConfirmation(...) settles
ServiceSettles(transientFailure) ==
  /\ pc = "awaitService"
  /\ LET set == SubmitClientPOConfirmationSet(confirmationTimestamp)
         res == WorkflowWrite(set, transientFailure)
     IN IF res = "pass"
          THEN /\ orders' = [orders EXCEPT ![orderId] = ApplyOrderSet(orders[orderId], set)]
               /\ pc' = "awaitUpdateOrder"
               /\ UNCHANGED <<submitting, toast>>
          ELSE /\ toast' = "error"
               /\ submitting' = setSubmittingFinally(submitting)
               /\ pc' = "idle"
               /\ UNCHANGED orders
  /\ UNCHANGED <<step, isNotTestOrderConfirmed, isPaymentTermsConfirmed, currentUser,
                 storeOrder, confirmationTimestamp, clock, notifications, effectPending,
                 loadedSubmitted, nLoads, nSubmits, varsUsers, policies, lastOrder,
                 nOrderOps, varsSchema>>

\* await updateOrder(...) settles
UpdateOrderSettles(transientFailure) ==
  /\ pc = "awaitUpdateOrder"
  /\ LET set == UpdateOrderArgs(confirmationTimestamp)
         res == WorkflowWrite(set, transientFailure)
         row == ApplyOrderSet(orders[orderId], set)
     IN IF res = "pass"
          THEN /\ orders' = [orders EXCEPT ![orderId] = row]
               /\ storeOrder' = IF storeOrder = NoOrder THEN NoOrder ELSE row
               /\ effectPending' = (effectPending \/ (storeOrder # NoOrder /\ storeOrder # row))
               /\ pc' = "afterUpdateOrder"
               /\ UNCHANGED <<submitting, toast>>
          ELSE /\ toast' = "error"
               /\ submitting' = setSubmittingFinally(submitting)
               /\ pc' = "idle"
               /\ UNCHANGED <<orders, storeOrder, effectPending>>
  /\ UNCHANGED <<step, isNotTestOrderConfirmed, isPaymentTermsConfirmed, currentUser,
                 confirmationTimestamp, clock, notifications, loadedSubmitted, nLoads,
                 nSubmits, varsUsers, policies, lastOrder, nOrderOps, varsSchema>>

\* the rest of the try block and the finally block
SubmitCompletes ==
  /\ pc = "afterUpdateOrder"
  /\ notifications' = addNotification(notifications)
  /\ step' = "pending"
  /\ toast' = "success"
  /\ submitting' = setSubmittingFinally(submitting)
  /\ pc' = "idle"
  /\ UNCHANGED <<isNotTestOrderConfirmed, isPaymentTermsConfirmed, currentUser, storeOrder,
                 confirmationTimestamp, clock, effectPending, loadedSubmitted, nLoads,
                 nSubmits, varsUsers, varsOrders, varsSchema>>

\* time passes
Tick ==
  /\ clock < MaxClock
  /\ clock' = clock + 1
  /\ UNCHANGED <<step, submitting, isNotTestOrderConfirmed, isPaymentTermsConfirmed,
                 currentUser, storeOrder, pc, confirmationTimestamp, notifications, toast,
                 effectPending, loadedSubmitted, nLoads, nSubmits, varsUsers, varsOrders,
                 varsSchema>>

InitFlow ==
  /\ step = "confirmation"
  /\ submitting = FALSE
  /\ isNotTestOrderConfirmed = FALSE
  /\ isPaymentTermsConfirmed = FALSE
  /\ currentUser = NULL
  /\ storeOrder = NoOrder
  /\ pc = "unmounted"
  /\ confirmationTimestamp = NullTimestamp
  /\ clock = 1
  /\ notifications = 0
  /\ toast = "none"
  /\ effectPending = FALSE
  /\ loadedSubmitted = FALSE
  /\ nLoads = 0
  /\ nSubmits = 0

\* the workflow's client owns one order, or two
InitWorkflow ==
  /\ InitUsers
  /\ InitSchema
  /\ InitFlow
  /\ orders \in {[x \in OrderIds |-> IF x = "o1" THEN NewOrderRow("c1", "PENDING_PO") ELSE NoOrder],
                 [x \in OrderIds |-> NewOrderRow("c1", "PENDING_PO")]}
  /\ policies = {UpdatePolicyName, InsertPolicyName}
  /\ lastOrder = OrderOp("none", NULL, NULL, NoOrder, NoOrder, {}, "none")
  /\ nOrderOps = 0

NextWorkflow ==
  \/ \E user \in {"c1", NULL}, haveOrder \in BOOLEAN : Load(user, haveOrder)
  \/ StoreLoaded
  \/ RestoreEffect
  \/ ToggleNotTestOrder
  \/ TogglePaymentTerms
  \/ ClickSubmit
  \/ \E f \in BOOLEAN : ServiceSettles(f)
  \/ \E f \in BOOLEAN : UpdateOrderSettles(f)
  \/ SubmitCompletes
  \/ Tick
  \/ \E st \in OrderStatuses :
       nOrderOps < MaxAdminTransitions /\ TrustedStatusTransition(orderId, st)

\* the schema before any of the three scripts has run
InitBeforeMigrations ==
  /\ InitUsers
  /\ orders = [x \in OrderIds |-> NoOrder]
  /\ policies = {}
  /\ lastOrder = OrderOp("none", NULL, NULL, NoOrder, NoOrder, {}, "none")
  /\ nOrderOps = 0
  /\ columns = {}
  /\ userTriggers = {"update_users_updated_at", "auto_public_id_trigger", LegacyGuardTrigger}
  /\ userFunctions = {"restrict_user_profile_update"}
  /\ migration_log = [m \in Migrations |-> 0]
  /\ lastMig = [name |-> NULL, mode |-> NULL, error |-> FALSE, rerun |-> FALSE,
                before |-> [columns |-> {}, policies |-> {}, userTriggers |-> {},
                            userFunctions |-> {}]]
  /\ nMigs = 0
  /\ InitFlow

Init == InitUsers /\ InitOrders /\ InitSchema /\ InitFlow

NextUsers ==
  \E ctx \in UserWriteContexts, target \in UserIds, delta \in UserDeltas :
    UserUpdate(ctx, target, delta)

SpecUsers == Init /\ [][NextUsers]_vars

SpecOrders == Init /\ [][NextOrders]_vars

SpecMigrations == InitBeforeMigrations /\ [][NextMigrations]_vars

SpecWorkflow == InitWorkflow /\ [][NextWorkflow]_vars

\* an effect that is scheduled runs; a pending write settles
SpecWorkflowFair ==
  /\ SpecWorkflow
  /\ WF_vars(RestoreEffect)

\* the handler's continuation after an await, or after the last one
HandlerResumes ==
  \/ \E f \in BOOLEAN : ServiceSettles(f)
  \/ \E f \in BOOLEAN : UpdateOrderSettles(f)
  \/ SubmitCompletes

\* each write eventually returns or throws, and the handler then runs on
SpecWorkflowSettles ==
  /\ SpecWorkflow
  /\ WF_vars(HandlerResumes)

(***************************************************************************)
(* Properties                                                              *)
(***************************************************************************)

\* C1: an insert or update of an order attempted through the client policies
\* by a principal who is not the order's client_id is denied and leaves the
\* stored order as it was.
C1_NonOwnerWriteDenied ==
  ( \/ /\ lastOrder.op = "update"
       /\ lastOrder.uid # lastOrder.old.client_id
    \/ /\ lastOrder.op = "insert"
       /\ lastOrder.uid # lastOrder.proposed.client_id )
  => /\ lastOrder.outcome = "denied"
     /\ orders[lastOrder.id] = lastOrder.old

\* a non-owner who owns an order of their own tried to take over another order
C1_Witness ==
  /\ lastOrder.op = "update"
  /\ lastOrder.uid # lastOrder.old.client_id
  /\ lastOrder.proposed.client_id = lastOrder.uid
  /\ VisibleOrders(lastOrder.uid, orders) # {}
  /\ lastOrder.outcome = "denied"

\* C2: an update by the owner that proposes a status other than the persisted
\* one is denied, and no client update changes the status column.
C2_OwnerStatusChangeDenied ==
  lastOrder.op = "update"
  => /\ ( /\ lastOrder.uid = lastOrder.old.client_id
          /\ lastOrder.proposed.status # lastOrder.old.status )
        => lastOrder.outcome = "denied"
     /\ orders[lastOrder.id].status = lastOrder.old.status

C2_Witness ==
  /\ lastOrder.op = "update"
  /\ lastOrder.uid = lastOrder.old.client_id
  /\ lastOrder.proposed.status = PENDING_ADMIN_CONFIRMATION
  /\ lastOrder.old.status = "PENDING_PO"
  /\ Cardinality(VisibleOrders(lastOrder.uid, orders)) = 1
  /\ lastOrder.outcome = "denied"

\* C3: in a direct end-user session an update of a users row by an
\* authenticated non-admin principal is denied exactly when one of role,
\* verified, status, kyc_status, public_id, date_joined, credit_limit differs
\* between the old and the new row.
C3_GuardDeniesExactlyProtectedChanges ==
  ( /\ lastUser.op = "update"
    /\ lastUser.session \in EndUserRoles
    /\ lastUser.uid # NULL
    /\ lastUser.callerRole # "ADMIN" )
  => ( lastUser.outcome = "denied"
       <=> \E f \in ProtectedUserFields : lastUser.old[f] # lastUser.new[f] )

\* C4: an update of a users row made by a trusted system process (a statement
\* that does not run as an end-user role) is allowed whatever columns it
\* changes and whoever is authenticated.
C4_TrustedUserUpdateAllowed ==
  ( /\ lastUser.op = "update"
    /\ lastUser.session \notin EndUserRoles )
  => /\ lastUser.outcome = "allowed"
     /\ users[lastUser.target] = lastUser.new

\* a trusted routine called by a CLIENT changed that client's role
C4_Witness ==
  /\ lastUser.op = "update"
  /\ lastUser.session = OwnerRole
  /\ lastUser.callerRole = "CLIENT"
  /\ lastUser.old.role # lastUser.new.role
  /\ users[lastUser.target] = lastUser.new

\* C5: an update by the owner that keeps the status and sets only the three
\* confirmation timestamps and client_po_uploaded is allowed and committed,
\* whatever other orders exist.
C5_OwnerPOUpdateAllowed ==
  ( /\ lastOrder.op = "update"
    /\ lastOrder.uid = lastOrder.old.client_id
    /\ lastOrder.proposed.status = lastOrder.old.status
    /\ lastOrder.cols \subseteq POColumns )
  => /\ lastOrder.outcome = "allowed"
     /\ orders[lastOrder.id] = lastOrder.proposed

C9_MigrationRerunIdempotent ==
  lastMig.rerun
  => /\ ~lastMig.error
     /\ Schema = lastMig.before
     /\ \A m \in Migrations : migration_log[m] <= 1
     /\ migration_log[lastMig.name] = 1

\* the three confirmation timestamps of the persisted order are the instant
\* the submit captured
ConfirmationStoredAt(row, t) ==
  /\ t # NullTimestamp
  /\ row.not_test_order_confirmed_at = t
  /\ row.payment_terms_confirmed_at = t
  /\ row.client_po_confirmation_submitted_at = t

\* C7: when a submit succeeds, the write that completes it leaves the
\* persisted order with status 'pending admin confirmation' and the three
\* confirmation timestamps non-null and equal to one instant, and they still
\* are when success is reported.
C7_SuccessfulSubmitPersistsConfirmation ==
  /\ [][ (pc = "awaitUpdateOrder" /\ pc' = "afterUpdateOrder")
         => /\ orders'[orderId].status = PENDING_ADMIN_CONFIRMATION
            /\ ConfirmationStoredAt(orders'[orderId], confirmationTimestamp) ]_vars
  /\ [](toast = "success"
         => ConfirmationStoredAt(orders[orderId], confirmationTimestamp))

\* the owning client's submit reported success
C7_Witness ==
  /\ toast = "success"
  /\ currentUser = orders[orderId].client_id
  /\ isNotTestOrderConfirmed /\ isPaymentTermsConfirmed
  /\ orders[orderId].status = PENDING_ADMIN_CONFIRMATION
  /\ ConfirmationStoredAt(orders[orderId], confirmationTimestamp)

C10_NotificationOncePerSubmission ==
  /\ [][ notifications' # notifications
         => \/ nLoads' # nLoads
            \/ /\ pc = "afterUpdateOrder"
               /\ ConfirmationStoredAt(orders[orderId], confirmationTimestamp)
               /\ notifications' = notifications + 1 ]_vars
  /\ []( /\ notifications <= 1
         /\ toast = "success" => notifications = 1
         /\ toast # "success" => notifications = 0 )

\* a failed attempt, then a retry that succeeded and notified once
C10_Witness ==
  /\ nSubmits = 2
  /\ nLoads = 1
  /\ toast = "success"
  /\ notifications = 1

\* C11: once a write of the submit has failed, the workflow stays in step
\* 'confirmation' for as long as no later submit succeeds, the error toast
\* has been shown, no notification is enqueued and the submitting flag is
\* cleared so that the user can submit again.
C11_FailedSubmitStaysUnconfirmed ==
  toast = "error"
  => /\ step = "confirmation"
     /\ notifications = 0
     /\ (pc = "idle" => ~submitting)

\* C12: an update issued from a direct end-user session by the owning
\* non-admin user never alters credit_used, current_balance or rating of that
\* user's row.
C12_FinancialCountersTrustedOnly ==
  ( /\ lastUser.op = "update"
    /\ lastUser.session \in EndUserRoles
    /\ lastUser.uid = lastUser.target
    /\ lastUser.callerRole # "ADMIN" )
  => \A f \in FinancialUserFields : users[lastUser.target][f] = lastUser.old[f]

\* C13: a submit starts only while no submit of the workflow instance is in
\* flight: from the click until the writes have completed or failed the
\* submitting flag is set, and no second run of the handler starts.
C13_SubmitNonReentrant ==
  /\ [][ nSubmits' # nSubmits
         => /\ pc = "idle"
            /\ ~submitting
            /\ pc' = "awaitService"
            /\ submitting' ]_vars
  /\ [](pc \in {"awaitService", "awaitUpdateOrder", "afterUpdateOrder"} => submitting)

\* a second submit, started after the first had failed, is in flight with
\* both boxes still ticked
C13_Witness ==
  /\ nSubmits = 2
  /\ nLoads = 1
  /\ pc = "awaitUpdateOrder"
  /\ submitting
  /\ isNotTestOrderConfirmed /\ isPaymentTermsConfirmed
  /\ step = "confirmation"

\* C14: as long as no admin-side transition has touched the order, the
\* persisted order carries either none of the three confirmation timestamps,
\* or all three together with the status 'pending admin confirmation': the
\* submit never leaves its timestamps stored without its status change.
C14_SubmitIsOneLogicalWrite ==
  nOrderOps = 0
  => LET o == orders[orderId]
     IN \/ /\ o.not_test_order_confirmed_at = NullTimestamp
           /\ o.payment_terms_confirmed_at = NullTimestamp
           /\ o.client_po_confirmation_submitted_at = NullTimestamp
        \/ /\ o.not_test_order_confirmed_at # NullTimestamp
           /\ o.payment_terms_confirmed_at # NullTimestamp
           /\ o.client_po_confirmation_submitted_at # NullTimestamp
           /\ o.status = PENDING_ADMIN_CONFIRMATION

\* C15: a submit starts, and the workflow writes to the order, only when at
\* the click both confirmations are ticked and a current user is present;
\* with no current user the click changes nothing.
C15_SubmitRequiresConfirmations ==
  /\ [][ (nSubmits' # nSubmits \/ (pc = "idle" /\ pc' = "awaitService"))
         => /\ isNotTestOrderConfirmed
            /\ isPaymentTermsConfirmed
            /\ currentUser # NULL ]_vars
  /\ [][ (orders' # orders /\ nOrderOps' = nOrderOps)
         => /\ pc \in {"awaitService", "awaitUpdateOrder"}
            /\ currentUser # NULL ]_vars
  /\ [](currentUser = NULL
         => /\ pc \in {"unmounted", "idle"}
            /\ ~submitting
            /\ toast = "none"
            /\ notifications = 0)

\* both boxes are ticked and the button is enabled, but nobody is signed in
C15_Witness ==
  /\ pc = "idle"
  /\ currentUser = NULL
  /\ step = "confirmation"
  /\ ~effectPending
  /\ isNotTestOrderConfirmed /\ isPaymentTermsConfirmed
  /\ ~SubmitDisabled
  /\ nSubmits = 0

\* C16: an insert through the client insert policy commits only when the
\* proposed client_id is the acting principal and that principal's stored
\* role is CLIENT; a denied insert creates no row.
C16_InsertRequiresOwnClientRole ==
  lastOrder.op = "insert"
  => /\ lastOrder.outcome = "allowed"
        => /\ lastOrder.proposed.client_id = lastOrder.uid
           /\ users[lastOrder.uid].role = "CLIENT"
           /\ orders[lastOrder.id] = lastOrder.proposed
     /\ lastOrder.outcome = "denied" => orders[lastOrder.id] = NoOrder

\* an ADMIN tried to insert an order naming themselves as the client
C16_Witness ==
  /\ lastOrder.op = "insert"
  /\ lastOrder.proposed.client_id = lastOrder.uid
  /\ users[lastOrder.uid].role = "ADMIN"
  /\ lastOrder.outcome = "denied"
  /\ orders[lastOrder.id] = NoOrder

\* C17: an update of an order that a client is allowed to commit changes none
\* of the columns outside the PO confirmation columns: client_id, status and
\* amount are as they were.
C17_ClientUpdateFrame ==
  ( /\ lastOrder.op = "update"
    /\ lastOrder.outcome = "allowed" )
  => \A c \in OrderColumns \ POColumns : orders[lastOrder.id][c] = lastOrder.old[c]

\* C18: in a direct end-user session the guard decides on the caller's role
\* as stored when the update is made: a caller whose stored role is ADMIN may
\* change any columns, and a caller whose stored role is not ADMIN, also one
\* who was ADMIN before, is denied a change of a protected column.
C18_AdminCheckUsesStoredRole ==
  ( /\ lastUser.op = "update"
    /\ lastUser.session \in EndUserRoles
    /\ lastUser.uid # NULL )
  => /\ lastUser.callerRole = "ADMIN"
        => /\ lastUser.outcome = "allowed"
           /\ users[lastUser.target] = lastUser.new
     /\ ( /\ lastUser.callerRole # "ADMIN"
          /\ \E f \in ProtectedUserFields : lastUser.old[f] # lastUser.new[f] )
        => /\ lastUser.outcome = "denied"
           /\ users[lastUser.target] = lastUser.old

\* C19: an update issued by an authenticated principal whose stored role is
\* not ADMIN changes no user's role, the principal's own included: the set
\* of users whose role is ADMIN does not grow.
C19_NoSelfPromotion ==
  [][ ( /\ nUserOps' # nUserOps
        /\ lastUser'.session = "authenticated"
        /\ lastUser'.callerRole # "ADMIN" )
      => /\ \A u \in UserIds : users'[u].role = users[u].role
         /\ {u \in UserIds : users'[u].role = "ADMIN"}
              \subseteq {u \in UserIds : users[u].role = "ADMIN"} ]_vars

\* C20: every submit that starts eventually clears the submitting flag,
\* whether its writes succeed or fail, given that each write eventually
\* returns or throws; a workflow whose handler is not running has the flag
\* cleared.
C20_SubmittingEventuallyCleared ==
  /\ submitting ~> ~submitting
  /\ [](pc \in {"unmounted", "idle"} => ~submitting)

\* a submit failed at its first write, and the flag is cleared for a retry
C20_Witness ==
  /\ nSubmits = 1
  /\ toast = "error"
  /\ pc = "idle"
  /\ ~submitting
  /\ step = "confirmation"
  /\ ~SubmitDisabled
  /\ orders[orderId].client_po_confirmation_submitted_at = NullTimestamp

====
